---------------------------- MODULE Spec2Model ----------------------------
(***************************************************************************)
(* Model of backend/main.py: the audio pipeline orchestrator               *)
(* (process_audio_pipeline), its global lock and status file, the web      *)
(* upload gateway and the bluetooth directory watcher, together with the   *)
(* signature of pdf_service.generate_pdf that the orchestrator calls.      *)
(*                                                                         *)
(* Text is a sequence of Unicode code points.  A Python dict is a sequence *)
(* of <<key, value>> pairs in insertion order.  A job is identified by the *)
(* uuid drawn for it; uuid4 is modelled by a fresh counter.  The wall      *)
(* clock "timestamp" field of the status record is left out.               *)
(***************************************************************************)
EXTENDS Integers, Sequences, FiniteSets, TLC

(***************************************************************************)
(* Bounds of the model                                                     *)
(***************************************************************************)
MaxJobs == 2
MaxFields == 2
MaxItems == 2
MaxUtterances == 3   \* utterances of a transcript
MaxSize == 2         \* greatest file size os.path.getsize reports
MaxPolls == 4        \* polls of wait_until_ready that fit into its timeout

(***************************************************************************)
(* Program constants                                                       *)
(***************************************************************************)
MaxAttempts == 2
DevanagariFirst == 2304
DevanagariLast == 2431
NoSize == -1     \* initial last_size of wait_until_ready

Jobs == 1..MaxJobs
NoJob == 0

VARIABLES
  lock,          \* PIPELINE_LOCK: the job holding it, or NoJob
  status,        \* content of STATUS_FILE
  pc,            \* position of each job in process_audio_pipeline
  source,        \* argument source of each job
  base_name,     \* argument base_name of each job: <<uid, stem>>
  attempts,      \* iterations of the transcription retry loop done so far
  transcript,    \* local transcript: last result of transcribe_audio
  language,      \* local language
  summary_en,    \* local summary_en
  summary_final, \* local summary_final
  error,         \* local e of the except clause
  result,        \* value returned to the caller: "None" until it returns
  published,     \* stages this job has passed to write_status, in order
  transcribeLog, \* number of calls of transcribe_audio in the running call
  summarizeLog,  \* number of calls of generate_summary in the running call
  translateLog,  \* texts the running call passed to translate_text, in order
  renderLog,     \* number of calls of generate_pdf in the running call
  transcripts,   \* TRANSCRIPTS_DIR: the file of each job
  summaries,     \* SUMMARIES_DIR: the file of each job
  pdfs,          \* PDFS_DIR: whether the report of each job exists
  nextUid,       \* next fresh uuid
  wpc,           \* position of the bluetooth_watcher thread
  processed,     \* local processed of bluetooth_watcher
  ledger,        \* content of PROCESSED_LOG
  btdir,         \* names of the files in BLUETOOTH_DIR
  todo,          \* names os.listdir returned that the for loop has not visited
  wfile,         \* loop variable file while process_audio_pipeline runs for it
  wjob,          \* job the watcher is running synchronously, or NoJob
  acks,          \* acknowledgments upload_audio has returned
  samples,       \* wait_until_ready: what each poll of the running call observed
  last_size,     \* wait_until_ready: local last_size
  rpc,           \* wait_until_ready: "loop", or the value it returned
  wsData,        \* write_status: <<data>> while STATUS_FILE is open for writing
  reply          \* what the last get_status request got

jobVars == <<pc, source, base_name, attempts, transcript, language, summary_en,
             summary_final, error, result, published>>
logVars == <<transcribeLog, summarizeLog, translateLog, renderLog>>
fileVars == <<transcripts, summaries, pdfs>>
watchVars == <<wpc, processed, ledger, btdir, todo, wfile, wjob>>
readyVars == <<samples, last_size, rpc>>
statusVars == <<wsData, reply>>
pipelineVars == <<lock, status, jobVars, logVars, fileVars, nextUid, watchVars, acks>>
vars == <<pipelineVars, readyVars, statusVars>>

(***************************************************************************)
(* Text helpers                                                            *)
(***************************************************************************)
Whitespace == {9, 10, 11, 12, 13, 32}

RECURSIVE LStrip(_)
LStrip(s) ==
  IF s # <<>> /\ Head(s) \in Whitespace THEN LStrip(Tail(s)) ELSE s

RECURSIVE RStrip(_)
RStrip(s) ==
  IF s # <<>> /\ s[Len(s)] \in Whitespace
  THEN RStrip(SubSeq(s, 1, Len(s) - 1))
  ELSE s

\* str.strip()
Strip(s) == RStrip(LStrip(s))

DoctorText == <<68, 111, 99, 116, 111, 114>>
PatientText == <<80, 97, 116, 105, 101, 110, 116>>
ColonSpace == <<58, 32>>
Newline == <<10>>

RECURSIVE Join(_, _)
\* sep.join(lines)
Join(sep, lines) ==
  IF lines = <<>> THEN <<>>
  ELSE IF Len(lines) = 1 THEN lines[1]
  ELSE lines[1] \o sep \o Join(sep, Tail(lines))

(***************************************************************************)
(* detect_language_from_text                                               *)
(***************************************************************************)
\* detection that looks at the first character only
DetectFromFirstCharacter(text) ==
  IF text # <<>> /\ DevanagariFirst <= text[1] /\ text[1] <= DevanagariLast
  THEN "hi"
  ELSE "en"

detect_language_from_text(text) ==
  IF \E i \in 1..Len(text) : DevanagariFirst <= text[i] /\ text[i] <= DevanagariLast
  THEN "hi"
  ELSE "en"

(***************************************************************************)
(* format_role_based_text                                                  *)
(***************************************************************************)
RECURSIVE SpeakerKeys(_, _)
\* keys of speaker_lengths in insertion order
SpeakerKeys(utterances, seen) ==
  IF utterances = <<>> THEN seen
  ELSE LET s == Head(utterances).speaker
       IN  IF \E i \in 1..Len(seen) : seen[i] = s
           THEN SpeakerKeys(Tail(utterances), seen)
           ELSE SpeakerKeys(Tail(utterances), Append(seen, s))

RECURSIVE SpeakerLength(_, _)
\* speaker_lengths[s]
SpeakerLength(utterances, s) ==
  IF utterances = <<>> THEN 0
  ELSE (IF Head(utterances).speaker = s THEN Len(Head(utterances).text) ELSE 0)
       + SpeakerLength(Tail(utterances), s)

\* the speaker of the first utterance
FirstSpeaker(utterances) == SpeakerKeys(utterances, <<>>)[1]

\* max(speaker_lengths, key=speaker_lengths.get): the first key of greatest value
DoctorSpeaker(utterances) ==
  LET keys == SpeakerKeys(utterances, <<>>)
      best == CHOOSE i \in 1..Len(keys) :
                /\ \A k \in 1..Len(keys) :
                     SpeakerLength(utterances, keys[k]) <= SpeakerLength(utterances, keys[i])
                /\ \A k \in 1..(i - 1) :
                     SpeakerLength(utterances, keys[k]) < SpeakerLength(utterances, keys[i])
  IN  keys[best]

format_role_based_text(utterances) ==
  IF utterances = <<>> THEN <<>>
  ELSE LET doctor_speaker == DoctorSpeaker(utterances)
           lines == [i \in 1..Len(utterances) |->
                      (IF utterances[i].speaker = doctor_speaker
                       THEN DoctorText ELSE PatientText)
                      \o ColonSpace \o utterances[i].text]
       IN  Join(Newline, lines)

(***************************************************************************)
(* What the collaborators can return                                       *)
(***************************************************************************)
NoUtterances == <<>>

\* transcribe_audio: raises, returns None, an object without text, or an object
\* (language_code is the language the collaborator reports for the audio)
TranscribeRaise ==
  [kind |-> "raise", text |-> <<>>, utterances |-> NoUtterances, language_code |-> ""]
TranscribeNone ==
  [kind |-> "none", text |-> <<>>, utterances |-> NoUtterances, language_code |-> ""]
TranscribeNoText ==
  [kind |-> "notext", text |-> <<>>, utterances |-> NoUtterances, language_code |-> "en"]
TranscribeEmpty ==
  [kind |-> "obj", text |-> <<>>, utterances |-> NoUtterances, language_code |-> "en"]
TranscribeBlank ==
  [kind |-> "obj", text |-> <<32>>, utterances |-> NoUtterances, language_code |-> "en"]
TranscribeEnglish ==
  [kind |-> "obj", text |-> <<104, 105, 32, 111, 107>>,
   utterances |-> << [speaker |-> "A", text |-> <<104, 105>>, start |-> 0, end |-> 1],
                     [speaker |-> "B", text |-> <<111, 107>>, start |-> 1, end |-> 2] >>,
   language_code |-> "en"]
TranscribeHindi ==
  [kind |-> "obj", text |-> <<2344, 2350>>,
   utterances |-> << [speaker |-> "A", text |-> <<2344, 2350>>, start |-> 0, end |-> 1] >>,
   language_code |-> "en"]

TranscribeOutcomes ==
  {TranscribeRaise, TranscribeNone, TranscribeNoText, TranscribeEmpty,
   TranscribeBlank, TranscribeEnglish, TranscribeHindi}

NoTranscript == TranscribeNone

\* A Summary value: a list of texts or one text (items has length 1)
Scalar(t) == [isList |-> FALSE, items |-> <<t>>]
List(ts) == [isList |-> TRUE, items |-> ts]

EmptySummary == <<>>
SummaryA ==
  << <<"doctor_summary", Scalar(<<102, 108, 117>>)>>,
     <<"symptoms", List(<< <<99>>, <<102>> >>)>> >>

\* generate_summary: raises, returns an empty dict, or returns a Summary
SummarizeOutcomes == {"raise", "empty", "summary"}
SummaryOf(o) == IF o = "summary" THEN SummaryA ELSE EmptySummary

\* translate_text(text, language) when it succeeds: never the text itself
LanguageMark(lang) == IF lang = "hi" THEN 2361 ELSE 63
translate_text(text, lang) == <<LanguageMark(lang)>> \o text

(***************************************************************************)
(* The translation comprehension of process_audio_pipeline                *)
(***************************************************************************)
RECURSIVE Leaves(_)
\* the texts the comprehension passes to translate_text, in evaluation order
Leaves(summary) ==
  IF summary = <<>> THEN <<>>
  ELSE Head(summary)[2].items \o Leaves(Tail(summary))

\* the comprehension without the isinstance test: every value is iterated
TranslateValueAsList(v, lang) ==
  [isList |-> TRUE,
   items |-> [i \in 1..Len(v.items) |-> translate_text(v.items[i], lang)]]

TranslateValue(v, lang) ==
  IF v.isList
  THEN [isList |-> TRUE,
        items |-> [i \in 1..Len(v.items) |-> translate_text(v.items[i], lang)]]
  ELSE [isList |-> FALSE, items |-> <<translate_text(v.items[1], lang)>>]

TranslateSummary(summary, lang) ==
  [i \in 1..Len(summary) |-> <<summary[i][1], TranslateValue(summary[i][2], lang)>>]

(***************************************************************************)
(* json.dump: the token stream written to the file                         *)
(***************************************************************************)
Token(t, k, v) == [t |-> t, k |-> k, v |-> v]

DumpItems(items) == [i \in 1..Len(items) |-> Token("str", "", items[i])]

DumpValue(v) ==
  IF v.isList
  THEN <<Token("[", "", <<>>)>> \o DumpItems(v.items) \o <<Token("]", "", <<>>)>>
  ELSE DumpItems(v.items)

RECURSIVE DumpFields(_)
DumpFields(summary) ==
  IF summary = <<>> THEN <<>>
  ELSE <<Token("key", Head(summary)[1], <<>>)>> \o DumpValue(Head(summary)[2])
       \o DumpFields(Tail(summary))

JsonDump(summary) ==
  <<Token("{", "", <<>>)>> \o DumpFields(summary) \o <<Token("}", "", <<>>)>>

\* A file: absent, or present with what was written (complete or cut short)
NoFile == [exists |-> FALSE, complete |-> FALSE, content |-> <<>>]
PartialFile == [exists |-> TRUE, complete |-> FALSE, content |-> <<>>]
WholeFile(c) == [exists |-> TRUE, complete |-> TRUE, content |-> c]

\* outcomes of open(path, "w") followed by json.dump
WriteOutcomes == {"ok", "open_fail", "dump_fail"}
Written(outcome, content) ==
  IF outcome = "ok" THEN WholeFile(content)
  ELSE IF outcome = "dump_fail" THEN PartialFile
  ELSE NoFile

(***************************************************************************)
(* Exceptions                                                              *)
(***************************************************************************)
NoError == [class |-> "", msg |-> ""]
Exc(class, msg) == [class |-> class, msg |-> msg]
\* an except clause that names RuntimeError only
OnlyRuntimeError == {"RuntimeError"}
\* the classes that except Exception catches
ExceptionSubclasses == {"Exception", "RuntimeError", "TypeError", "OSError"}
\* str(e)
Str(e) == e.msg

(***************************************************************************)
(* write_status                                                            *)
(***************************************************************************)
Absent == ""
NoBase == <<0, "">>
IdleStatus ==
  [source |-> Absent, file |-> NoBase, language |-> Absent, stage |-> "idle",
   error |-> Absent]
StatusOf(j, lang, stage, err) ==
  [source |-> source[j], file |-> base_name[j], language |-> lang, stage |-> stage,
   error |-> err]

(***************************************************************************)
(* pdf_service.generate_pdf: its parameters, and the call in main.py       *)
(***************************************************************************)
GeneratePdfRequired == {"summary_json_path", "doctor_info"}
GeneratePdfCallArgs == {"summary_json_path", "language"}
\* Python binds the call only if every parameter without default gets a value
GeneratePdfBinds == GeneratePdfRequired \subseteq GeneratePdfCallArgs

(***************************************************************************)
(* Watched directory                                                       *)
(***************************************************************************)
\* file names as <<stem, extension>>; the names senders drop are audio names
BluetoothFiles == { <<"a", ".MP3">> }
UploadFiles == { <<"u", ".wav">> }
AllowedExtensions == {".wav", ".mp3", ".m4a", ".aac", ".ogg", ".3gp"}
\* str.lower() on the extensions that occur
Lower(ext) == IF ext = ".MP3" THEN ".mp3" ELSE ext
IsAudio(file) == Lower(file[2]) \in AllowedExtensions

\* string order of the stems that occur
StemOrder(stem) == IF stem = "a" THEN 1 ELSE IF stem = "b" THEN 2 ELSE 3

RECURSIVE SortedSeq(_)
\* sorted(list(p))
SortedSeq(p) ==
  IF p = {} THEN <<>>
  ELSE LET least == CHOOSE f \in p : \A g \in p : StemOrder(f[1]) <= StemOrder(g[1])
       IN  <<least>> \o SortedSeq(p \ {least})

SeqToSet(s) == { s[i] : i \in 1..Len(s) }

NoLedger == [exists |-> FALSE, names |-> <<>>]
LedgerOf(p) == [exists |-> TRUE, names |-> SortedSeq(p)]

\* load_processed
load_processed == IF ledger.exists THEN SeqToSet(ledger.names) ELSE {}

NoName == <<"", "">>

(***************************************************************************)
(* Initial state: module import, on_startup                                *)
(***************************************************************************)
Init ==
  /\ lock = NoJob
  /\ status = IdleStatus
  /\ pc = [j \in Jobs |-> "idle"]
  /\ source = [j \in Jobs |-> Absent]
  /\ base_name = [j \in Jobs |-> NoBase]
  /\ attempts = [j \in Jobs |-> 0]
  /\ transcript = [j \in Jobs |-> NoTranscript]
  /\ language = [j \in Jobs |-> Absent]
  /\ summary_en = [j \in Jobs |-> EmptySummary]
  /\ summary_final = [j \in Jobs |-> EmptySummary]
  /\ error = [j \in Jobs |-> NoError]
  /\ result = [j \in Jobs |-> "None"]
  /\ published = [j \in Jobs |-> <<>>]
  /\ transcribeLog = [j \in Jobs |-> 0]
  /\ summarizeLog = [j \in Jobs |-> 0]
  /\ translateLog = [j \in Jobs |-> <<>>]
  /\ renderLog = [j \in Jobs |-> 0]
  /\ transcripts = [j \in Jobs |-> NoFile]
  /\ summaries = [j \in Jobs |-> NoFile]
  /\ pdfs = [j \in Jobs |-> FALSE]
  /\ nextUid = 1
  /\ wpc = "start"
  /\ processed = {}
  /\ ledger \in {NoLedger, LedgerOf({<<"a", ".MP3">>})}
  /\ btdir = {}
  /\ todo = {}
  /\ wfile = NoName
  /\ wjob = NoJob
  /\ acks = {}
  /\ samples = <<>>
  /\ last_size = NoSize
  /\ rpc = "idle"
  /\ wsData = <<>>
  /\ reply = <<>>

(***************************************************************************)
(* process_audio_pipeline                                                  *)
(***************************************************************************)
\* the except clause: publish "error" and return False; what it does not
\* catch leaves the with block, which releases the lock
Except(j, e) ==
  IF e.class \in ExceptionSubclasses
  THEN /\ status' = StatusOf(j, Absent, "error", Str(e))
       /\ published' = [published EXCEPT ![j] = Append(@, "error")]
       /\ error' = [error EXCEPT ![j] = e]
       /\ result' = [result EXCEPT ![j] = "False"]
       /\ pc' = [pc EXCEPT ![j] = "exit"]
       /\ lock' = lock
  ELSE /\ pc' = [pc EXCEPT ![j] = "raised"]
       /\ error' = [error EXCEPT ![j] = e]
       /\ lock' = NoJob
       /\ UNCHANGED <<status, published, result>>

\* a stage went through: the job moves on
Proceed(j, next) ==
  /\ pc' = [pc EXCEPT ![j] = next]
  /\ UNCHANGED <<lock, error, result>>

\* Acquire without mutual exclusion: the lock is taken whether or not it is free
AcquireWithoutWaiting(j) ==
  /\ pc[j] = "waiting"
  /\ lock' = j
  /\ pc' = [pc EXCEPT ![j] = "start"]
  /\ UNCHANGED <<readyVars, statusVars,
                 status, source, base_name, attempts, transcript, language, summary_en,
                 summary_final, error, result, published, logVars, fileVars, nextUid,
                 watchVars, acks>>

\* with PIPELINE_LOCK: acquire
Acquire(j) ==
  /\ pc[j] = "waiting"
  /\ lock = NoJob
  /\ lock' = j
  /\ pc' = [pc EXCEPT ![j] = "start"]
  /\ UNCHANGED <<readyVars, statusVars,
                 status, source, base_name, attempts, transcript, language, summary_en,
                 summary_final, error, result, published, logVars, fileVars, nextUid,
                 watchVars, acks>>

\* write_status(transcribing)
PublishTranscribing(j) ==
  /\ pc[j] = "start"
  /\ status' = StatusOf(j, Absent, "transcribing", Absent)
  /\ published' = [published EXCEPT ![j] = Append(@, "transcribing")]
  /\ pc' = [pc EXCEPT ![j] = "transcribe"]
  /\ UNCHANGED <<readyVars, statusVars,
                 lock, source, base_name, attempts, transcript, language, summary_en,
                 summary_final, error, result, logVars, fileVars, nextUid, watchVars,
                 acks>>

\* truthiness of: transcript and getattr(transcript, "text", None)
HasText(t) == t.kind = "obj" /\ t.text # <<>>
\* not transcript or not transcript.text or not transcript.text.strip()
TranscriptRejected(t) == ~HasText(t) \/ Strip(t.text) = <<>>

\* Transcribe without the check that follows the retry loop
TranscribeUnchecked(j) ==
  /\ pc[j] = "transcribe"
  /\ attempts[j] < MaxAttempts
  /\ \E t \in TranscribeOutcomes :
       /\ transcribeLog' = [transcribeLog EXCEPT ![j] = @ + 1]
       /\ attempts' = [attempts EXCEPT ![j] = @ + 1]
       /\ IF t.kind = "raise"
          THEN /\ Except(j, Exc("Exception", "transcribe_audio failed"))
               /\ UNCHANGED transcript
          ELSE /\ transcript' = [transcript EXCEPT ![j] = t]
               /\ IF HasText(t) \/ attempts[j] + 1 = MaxAttempts
                  THEN /\ Proceed(j, "save_transcript")
                       /\ UNCHANGED <<status, published>>
                  ELSE /\ Proceed(j, "transcribe")
                       /\ UNCHANGED <<status, published>>
  /\ UNCHANGED <<readyVars, statusVars,
                 source, base_name, language, summary_en, summary_final, summarizeLog,
                 translateLog, renderLog, fileVars, nextUid, watchVars, acks>>

\* one iteration of the retry loop; the check after the loop when it ends
Transcribe(j) ==
  /\ pc[j] = "transcribe"
  /\ attempts[j] < MaxAttempts
  /\ \E t \in TranscribeOutcomes :
       /\ transcribeLog' = [transcribeLog EXCEPT ![j] = @ + 1]
       /\ attempts' = [attempts EXCEPT ![j] = @ + 1]
       /\ IF t.kind = "raise"
          THEN /\ Except(j, Exc("Exception", "transcribe_audio failed"))
               /\ UNCHANGED transcript
          ELSE /\ transcript' = [transcript EXCEPT ![j] = t]
               /\ IF HasText(t) \/ attempts[j] + 1 = MaxAttempts
                  THEN IF TranscriptRejected(t)
                       THEN Except(j, Exc("RuntimeError", "Transcription failed or empty"))
                       ELSE /\ Proceed(j, "save_transcript")
                            /\ UNCHANGED <<status, published>>
                  ELSE /\ Proceed(j, "transcribe")
                       /\ UNCHANGED <<status, published>>
  /\ UNCHANGED <<readyVars, statusVars,
                 source, base_name, language, summary_en, summary_final, summarizeLog,
                 translateLog, renderLog, fileVars, nextUid, watchVars, acks>>

\* the utterances comprehension
Utterances(t) ==
  [i \in 1..Len(t.utterances) |->
     [speaker |-> t.utterances[i].speaker, text |-> t.utterances[i].text,
      start_ms |-> t.utterances[i].start, end_ms |-> t.utterances[i].end]]

TranscriptJson(j, t) ==
  [audio_file |-> base_name[j],
   language |-> detect_language_from_text(t.text),
   full_text |-> format_role_based_text(Utterances(t)),
   utterances |-> Utterances(t)]

\* language detection, normalisation, transcript file, write_status(summarizing)
SaveTranscript(j) ==
  /\ pc[j] = "save_transcript"
  /\ LET lang == detect_language_from_text(transcript[j].text)
     IN  /\ language' = [language EXCEPT ![j] = lang]
         /\ \E w \in WriteOutcomes :
              /\ transcripts' = [transcripts EXCEPT
                                   ![j] = Written(w, <<TranscriptJson(j, transcript[j])>>)]
              /\ IF w = "ok"
                 THEN /\ status' = StatusOf(j, lang, "summarizing", Absent)
                      /\ published' = [published EXCEPT ![j] = Append(@, "summarizing")]
                      /\ Proceed(j, "summarize")
                 ELSE Except(j, Exc("OSError", "transcript write failed"))
  /\ UNCHANGED <<readyVars, statusVars,
                 source, base_name, attempts, transcript, summary_en, summary_final,
                 logVars, summaries, pdfs, nextUid, watchVars, acks>>

\* generate_summary and the check of its result
Summarize(j) ==
  /\ pc[j] = "summarize"
  /\ summarizeLog' = [summarizeLog EXCEPT ![j] = @ + 1]
  /\ \E o \in SummarizeOutcomes :
       IF o = "raise"
       THEN /\ Except(j, Exc("Exception", "generate_summary failed"))
            /\ UNCHANGED summary_en
       ELSE /\ summary_en' = [summary_en EXCEPT ![j] = SummaryOf(o)]
            /\ IF SummaryOf(o) = EmptySummary
               THEN Except(j, Exc("RuntimeError", "Summary generation failed"))
               ELSE /\ Proceed(j, "translate")
                    /\ UNCHANGED <<status, published>>
  /\ UNCHANGED <<readyVars, statusVars,
                 source, base_name, attempts, transcript, language, summary_final,
                 transcribeLog, translateLog, renderLog, fileVars, nextUid, watchVars,
                 acks>>

\* Translate without the test of the language
TranslateAlways(j) ==
  /\ pc[j] = "translate"
  /\ \E k \in 0..Len(Leaves(summary_en[j])) :
       IF k = 0
       THEN /\ translateLog' = [translateLog EXCEPT ![j] = Leaves(summary_en[j])]
            /\ summary_final' = [summary_final EXCEPT
                                   ![j] = TranslateSummary(summary_en[j], language[j])]
            /\ Proceed(j, "save_summary")
            /\ UNCHANGED <<status, published>>
       ELSE /\ translateLog' = [translateLog EXCEPT
                                  ![j] = SubSeq(Leaves(summary_en[j]), 1, k)]
            /\ Except(j, Exc("Exception", "translate_text failed"))
            /\ UNCHANGED summary_final
  /\ UNCHANGED <<readyVars, statusVars,
                 source, base_name, attempts, transcript, language, summary_en,
                 transcribeLog, summarizeLog, renderLog, fileVars, nextUid, watchVars,
                 acks>>

\* Translate that writes each translated field to the summary file as it goes
TranslateSavingEachField(j) ==
  /\ pc[j] = "translate"
  /\ IF language[j] # "en"
     THEN \E k \in 0..Len(Leaves(summary_en[j])) :
            IF k = 0
            THEN /\ translateLog' = [translateLog EXCEPT ![j] = Leaves(summary_en[j])]
                 /\ summary_final' = [summary_final EXCEPT
                                        ![j] = TranslateSummary(summary_en[j], language[j])]
                 /\ Proceed(j, "save_summary")
                 /\ UNCHANGED <<status, published, summaries>>
            ELSE /\ translateLog' = [translateLog EXCEPT
                                       ![j] = SubSeq(Leaves(summary_en[j]), 1, k)]
                 /\ summaries' = [summaries EXCEPT ![j] = PartialFile]
                 /\ Except(j, Exc("Exception", "translate_text failed"))
                 /\ UNCHANGED summary_final
     ELSE /\ summary_final' = [summary_final EXCEPT ![j] = summary_en[j]]
          /\ Proceed(j, "save_summary")
          /\ UNCHANGED <<status, published, translateLog, summaries>>
  /\ UNCHANGED <<readyVars, statusVars,
                 source, base_name, attempts, transcript, language, summary_en,
                 transcribeLog, summarizeLog, renderLog, transcripts, pdfs, nextUid,
                 watchVars, acks>>

\* if language != "en": the translation comprehension; the k-th call of
\* translate_text raises (k = 0: none does)
Translate(j) ==
  /\ pc[j] = "translate"
  /\ IF language[j] # "en"
     THEN \E k \in 0..Len(Leaves(summary_en[j])) :
            IF k = 0
            THEN /\ translateLog' = [translateLog EXCEPT ![j] = Leaves(summary_en[j])]
                 /\ summary_final' = [summary_final EXCEPT
                                        ![j] = TranslateSummary(summary_en[j], language[j])]
                 /\ Proceed(j, "save_summary")
                 /\ UNCHANGED <<status, published>>
            ELSE /\ translateLog' = [translateLog EXCEPT
                                       ![j] = SubSeq(Leaves(summary_en[j]), 1, k)]
                 /\ Except(j, Exc("Exception", "translate_text failed"))
                 /\ UNCHANGED summary_final
     ELSE /\ summary_final' = [summary_final EXCEPT ![j] = summary_en[j]]
          /\ Proceed(j, "save_summary")
          /\ UNCHANGED <<status, published, translateLog>>
  /\ UNCHANGED <<readyVars, statusVars,
                 source, base_name, attempts, transcript, language, summary_en,
                 transcribeLog, summarizeLog, renderLog, fileVars, nextUid, watchVars,
                 acks>>

\* SaveSummary with the status block of the previous stage copied unchanged
SaveSummaryRepublishing(j) ==
  /\ pc[j] = "save_summary"
  /\ \E w \in WriteOutcomes :
       /\ summaries' = [summaries EXCEPT ![j] = Written(w, JsonDump(summary_final[j]))]
       /\ IF w = "ok"
          THEN /\ status' = StatusOf(j, language[j], "summarizing", Absent)
               /\ published' = [published EXCEPT ![j] = Append(@, "summarizing")]
               /\ Proceed(j, "render")
          ELSE Except(j, Exc("OSError", "summary write failed"))
  /\ UNCHANGED <<readyVars, statusVars,
                 source, base_name, attempts, transcript, language, summary_en,
                 summary_final, logVars, transcripts, pdfs, nextUid, watchVars, acks>>

\* SaveSummary that goes on to rendering whether or not the write went through
SaveSummaryIgnoringFailure(j) ==
  /\ pc[j] = "save_summary"
  /\ \E w \in WriteOutcomes :
       /\ summaries' = [summaries EXCEPT ![j] = Written(w, JsonDump(summary_final[j]))]
       /\ status' = StatusOf(j, language[j], "generating_pdf", Absent)
       /\ published' = [published EXCEPT ![j] = Append(@, "generating_pdf")]
       /\ Proceed(j, "render")
  /\ UNCHANGED <<readyVars, statusVars,
                 source, base_name, attempts, transcript, language, summary_en,
                 summary_final, logVars, transcripts, pdfs, nextUid, watchVars, acks>>

\* summary file, write_status(generating_pdf)
SaveSummary(j) ==
  /\ pc[j] = "save_summary"
  /\ \E w \in WriteOutcomes :
       /\ summaries' = [summaries EXCEPT ![j] = Written(w, JsonDump(summary_final[j]))]
       /\ IF w = "ok"
          THEN /\ status' = StatusOf(j, language[j], "generating_pdf", Absent)
               /\ published' = [published EXCEPT ![j] = Append(@, "generating_pdf")]
               /\ Proceed(j, "render")
          ELSE Except(j, Exc("OSError", "summary write failed"))
  /\ UNCHANGED <<readyVars, statusVars,
                 source, base_name, attempts, transcript, language, summary_en,
                 summary_final, logVars, transcripts, pdfs, nextUid, watchVars, acks>>

\* generate_pdf(spath, language=language), write_status(completed), return True
Render(j) ==
  /\ pc[j] = "render"
  /\ renderLog' = [renderLog EXCEPT ![j] = @ + 1]
  /\ IF GeneratePdfBinds
     THEN \E built \in BOOLEAN :
            IF built
            THEN /\ pdfs' = [pdfs EXCEPT ![j] = TRUE]
                 /\ status' = StatusOf(j, language[j], "completed", Absent)
                 /\ published' = [published EXCEPT ![j] = Append(@, "completed")]
                 /\ result' = [result EXCEPT ![j] = "True"]
                 /\ pc' = [pc EXCEPT ![j] = "exit"]
                 /\ UNCHANGED <<lock, error>>
            ELSE /\ Except(j, Exc("Exception", "generate_pdf failed"))
                 /\ UNCHANGED pdfs
     ELSE /\ Except(j, Exc("TypeError",
                 "generate_pdf() missing 1 required positional argument: 'doctor_info'"))
          /\ UNCHANGED pdfs
  /\ UNCHANGED <<readyVars, statusVars,
                 source, base_name, attempts, transcript, language, summary_en,
                 summary_final, transcribeLog, summarizeLog, translateLog, transcripts,
                 summaries, nextUid, watchVars, acks>>

\* Release that lets go of the lock on the success path only
ReleaseOnSuccessOnly(j) ==
  /\ pc[j] = "exit"
  /\ lock' = IF result[j] = "True" THEN NoJob ELSE lock
  /\ pc' = [pc EXCEPT ![j] = "done"]
  /\ attempts' = [attempts EXCEPT ![j] = 0]
  /\ transcript' = [transcript EXCEPT ![j] = NoTranscript]
  /\ language' = [language EXCEPT ![j] = Absent]
  /\ summary_en' = [summary_en EXCEPT ![j] = EmptySummary]
  /\ summary_final' = [summary_final EXCEPT ![j] = EmptySummary]
  /\ error' = [error EXCEPT ![j] = NoError]
  /\ transcribeLog' = [transcribeLog EXCEPT ![j] = 0]
  /\ summarizeLog' = [summarizeLog EXCEPT ![j] = 0]
  /\ translateLog' = [translateLog EXCEPT ![j] = <<>>]
  /\ renderLog' = [renderLog EXCEPT ![j] = 0]
  /\ UNCHANGED <<readyVars, statusVars,
                 status, source, base_name, result, published, fileVars, nextUid,
                 watchVars, acks>>

\* leaving the with block: the lock is released and the function returns
Release(j) ==
  /\ pc[j] = "exit"
  /\ lock' = NoJob
  /\ pc' = [pc EXCEPT ![j] = "done"]
  /\ attempts' = [attempts EXCEPT ![j] = 0]
  /\ transcript' = [transcript EXCEPT ![j] = NoTranscript]
  /\ language' = [language EXCEPT ![j] = Absent]
  /\ summary_en' = [summary_en EXCEPT ![j] = EmptySummary]
  /\ summary_final' = [summary_final EXCEPT ![j] = EmptySummary]
  /\ error' = [error EXCEPT ![j] = NoError]
  /\ transcribeLog' = [transcribeLog EXCEPT ![j] = 0]
  /\ summarizeLog' = [summarizeLog EXCEPT ![j] = 0]
  /\ translateLog' = [translateLog EXCEPT ![j] = <<>>]
  /\ renderLog' = [renderLog EXCEPT ![j] = 0]
  /\ UNCHANGED <<readyVars, statusVars,
                 status, source, base_name, result, published, fileVars, nextUid,
                 watchVars, acks>>

(***************************************************************************)
(* upload_audio                                                            *)
(***************************************************************************)
\* upload_audio that publishes a status of its own for the accepted file
UploadPublishing(file) ==
  /\ nextUid <= MaxJobs
  /\ nextUid' = nextUid + 1
  /\ pc' = [pc EXCEPT ![nextUid] = "waiting"]
  /\ source' = [source EXCEPT ![nextUid] = "web"]
  /\ base_name' = [base_name EXCEPT ![nextUid] = <<nextUid, file[1]>>]
  /\ acks' = acks \cup {[status |-> "processing", audio_name |-> <<nextUid, file[1]>>]}
  /\ status' = [source |-> "web", file |-> <<nextUid, file[1]>>, language |-> Absent,
                stage |-> "processing", error |-> Absent]
  /\ UNCHANGED <<readyVars, statusVars,
                 lock, attempts, transcript, language, summary_en, summary_final,
                 error, result, published, logVars, fileVars, watchVars>>

\* upload_audio that runs the pipeline itself: it takes the lock before it answers
UploadSynchronous(file) ==
  /\ nextUid <= MaxJobs
  /\ lock = NoJob
  /\ lock' = nextUid
  /\ nextUid' = nextUid + 1
  /\ pc' = [pc EXCEPT ![nextUid] = "start"]
  /\ source' = [source EXCEPT ![nextUid] = "web"]
  /\ base_name' = [base_name EXCEPT ![nextUid] = <<nextUid, file[1]>>]
  /\ acks' = acks \cup {[status |-> "processing", audio_name |-> <<nextUid, file[1]>>]}
  /\ UNCHANGED <<readyVars, statusVars,
                 status, attempts, transcript, language, summary_en, summary_final,
                 error, result, published, logVars, fileVars, watchVars>>

\* the upload is stored and preprocessed, the pipeline is scheduled as a
\* background task and the acknowledgment is returned.  A request in which
\* preprocess_audio raises schedules nothing and changes nothing modelled here.
upload_audio(file) ==
  /\ nextUid <= MaxJobs
  /\ nextUid' = nextUid + 1
  /\ pc' = [pc EXCEPT ![nextUid] = "waiting"]
  /\ source' = [source EXCEPT ![nextUid] = "web"]
  /\ base_name' = [base_name EXCEPT ![nextUid] = <<nextUid, file[1]>>]
  /\ acks' = acks \cup {[status |-> "processing", audio_name |-> <<nextUid, file[1]>>]}
  /\ UNCHANGED <<readyVars, statusVars,
                 lock, status, attempts, transcript, language, summary_en, summary_final,
                 error, result, published, logVars, fileVars, watchVars>>

(***************************************************************************)
(* bluetooth_watcher                                                       *)
(***************************************************************************)
\* processed = load_processed()
WatcherStart ==
  /\ wpc = "start"
  /\ processed' = load_processed
  /\ wpc' = "poll"
  /\ UNCHANGED <<readyVars, statusVars,
                 lock, status, jobVars, logVars, fileVars, nextUid, ledger, btdir, todo,
                 wfile, wjob, acks>>

\* os.listdir(BLUETOOTH_DIR); the directory is taken to exist
WatcherPoll ==
  /\ wpc = "poll"
  /\ todo' = btdir
  /\ wpc' = "iter"
  /\ UNCHANGED <<readyVars, statusVars,
                 lock, status, jobVars, logVars, fileVars, nextUid, processed, ledger,
                 btdir, wfile, wjob, acks>>

\* WatcherIter without the try block: an exception ends the thread
WatcherIterUnguarded ==
  /\ wpc = "iter"
  /\ \E file \in todo :
       /\ todo' = todo \ {file}
       /\ IF file \in processed \/ ~IsAudio(file)
          THEN UNCHANGED <<wpc, btdir, wfile, wjob, nextUid, pc, source, base_name>>
          ELSE \E ready \in (IF file \in btdir THEN BOOLEAN ELSE {FALSE}) :
                 IF ~ready
                 THEN UNCHANGED <<wpc, btdir, wfile, wjob, nextUid, pc, source, base_name>>
                 ELSE \E step \in {"move_fail", "preprocess_fail", "ok"} :
                           /\ btdir' = IF step = "move_fail" THEN btdir ELSE btdir \ {file}
                           /\ IF step = "ok"
                              THEN /\ nextUid <= MaxJobs
                                   /\ nextUid' = nextUid + 1
                                   /\ pc' = [pc EXCEPT ![nextUid] = "waiting"]
                                   /\ source' = [source EXCEPT ![nextUid] = "bluetooth"]
                                   /\ base_name' = [base_name EXCEPT
                                                      ![nextUid] = <<nextUid, file[1]>>]
                                   /\ wjob' = nextUid
                                   /\ wfile' = file
                                   /\ wpc' = "call"
                              ELSE /\ wpc' = "stopped"
                                   /\ UNCHANGED <<wfile, wjob, nextUid, pc, source,
                                                  base_name>>
  /\ UNCHANGED <<readyVars, statusVars,
                 lock, status, attempts, transcript, language, summary_en, summary_final,
                 error, result, published, logVars, fileVars, processed, ledger, acks>>

\* one iteration of the for loop up to the call of process_audio_pipeline:
\* the two filters, wait_until_ready (not ready when the file is gone, either
\* answer otherwise), shutil.move, preprocess_audio.  An exception in move or
\* preprocess ends the cycle in the except clause.
WatcherIter ==
  /\ wpc = "iter"
  /\ \E file \in todo :
       /\ todo' = todo \ {file}
       /\ IF file \in processed \/ ~IsAudio(file)
          THEN UNCHANGED <<wpc, btdir, wfile, wjob, nextUid, pc, source, base_name>>
          ELSE \E ready \in (IF file \in btdir THEN BOOLEAN ELSE {FALSE}) :
                 IF ~ready
                 THEN UNCHANGED <<wpc, btdir, wfile, wjob, nextUid, pc, source, base_name>>
                 ELSE \E step \in {"move_fail", "preprocess_fail", "ok"} :
                           /\ btdir' = IF step = "move_fail" THEN btdir ELSE btdir \ {file}
                           /\ IF step = "ok"
                              THEN /\ nextUid <= MaxJobs
                                   /\ nextUid' = nextUid + 1
                                   /\ pc' = [pc EXCEPT ![nextUid] = "waiting"]
                                   /\ source' = [source EXCEPT ![nextUid] = "bluetooth"]
                                   /\ base_name' = [base_name EXCEPT
                                                      ![nextUid] = <<nextUid, file[1]>>]
                                   /\ wjob' = nextUid
                                   /\ wfile' = file
                                   /\ wpc' = "call"
                              ELSE /\ wpc' = "poll"
                                   /\ UNCHANGED <<wfile, wjob, nextUid, pc, source,
                                                  base_name>>
  /\ UNCHANGED <<readyVars, statusVars,
                 lock, status, attempts, transcript, language, summary_en, summary_final,
                 error, result, published, logVars, fileVars, processed, ledger, acks>>

\* WatcherReturn without the test of the result
WatcherReturnAlwaysAdds ==
  /\ wpc = "call"
  /\ pc[wjob] \in {"done", "raised"}
  /\ wjob' = NoJob
  /\ wfile' = NoName
  /\ processed' = processed \cup {wfile}
  /\ ledger' = LedgerOf(processed \cup {wfile})
  /\ wpc' = "iter"
  /\ UNCHANGED <<readyVars, statusVars,
                 lock, status, jobVars, logVars, fileVars, nextUid, btdir, todo, acks>>

\* WatcherReturn whose save writes the new name alone
WatcherReturnSavingLast ==
  /\ wpc = "call"
  /\ pc[wjob] \in {"done", "raised"}
  /\ wjob' = NoJob
  /\ wfile' = NoName
  /\ IF pc[wjob] = "raised"
     THEN /\ wpc' = "poll"
          /\ UNCHANGED <<processed, ledger>>
     ELSE IF result[wjob] = "True"
          THEN /\ processed' = processed \cup {wfile}
               /\ \E saved \in BOOLEAN :
                    IF saved
                    THEN /\ ledger' = LedgerOf({wfile})
                         /\ wpc' = "iter"
                    ELSE /\ ledger' = LedgerOf({})
                         /\ wpc' = "poll"
          ELSE /\ wpc' = "iter"
               /\ UNCHANGED <<processed, ledger>>
  /\ UNCHANGED <<readyVars, statusVars,
                 lock, status, jobVars, logVars, fileVars, nextUid, btdir, todo, acks>>

\* process_audio_pipeline returned: processed.add and save_processed on success
WatcherReturn ==
  /\ wpc = "call"
  /\ pc[wjob] \in {"done", "raised"}
  /\ wjob' = NoJob
  /\ wfile' = NoName
  /\ IF pc[wjob] = "raised"
     THEN /\ wpc' = "poll"
          /\ UNCHANGED <<processed, ledger>>
     ELSE IF result[wjob] = "True"
          THEN /\ processed' = processed \cup {wfile}
               /\ \E saved \in BOOLEAN :
                    IF saved
                    THEN /\ ledger' = LedgerOf(processed \cup {wfile})
                         /\ wpc' = "iter"
                    ELSE /\ ledger' = LedgerOf({})
                         /\ wpc' = "poll"
          ELSE /\ wpc' = "iter"
               /\ UNCHANGED <<processed, ledger>>
  /\ UNCHANGED <<readyVars, statusVars,
                 lock, status, jobVars, logVars, fileVars, nextUid, btdir, todo, acks>>

\* the for loop is over: time.sleep(3), next cycle
WatcherSleep ==
  /\ wpc = "iter"
  /\ todo = {}
  /\ wpc' = "poll"
  /\ UNCHANGED <<readyVars, statusVars,
                 lock, status, jobVars, logVars, fileVars, nextUid, processed, ledger,
                 btdir, todo, wfile, wjob, acks>>

\* a sender puts a file into BLUETOOTH_DIR
Drop(file) ==
  /\ file \notin btdir
  /\ btdir' = btdir \cup {file}
  /\ UNCHANGED <<readyVars, statusVars,
                 lock, status, jobVars, logVars, fileVars, nextUid, wpc, processed,
                 ledger, todo, wfile, wjob, acks>>

(***************************************************************************)
(* write_status and get_status                                             *)
(***************************************************************************)
\* STATUS_FILE as a reader finds it: open(STATUS_FILE, "w") has truncated it
\* until json.dump has run and the file is closed
StatusFile == IF wsData = <<>> THEN WholeFile(status) ELSE PartialFile

\* the records process_audio_pipeline passes to write_status
StatusRecords ==
  { [source |-> "web", file |-> <<1, "u">>, language |-> l, stage |-> st, error |-> Absent] :
      l \in {"en", "hi"}, st \in {"summarizing", "generating_pdf", "completed"} }
  \cup { [source |-> "web", file |-> <<1, "u">>, language |-> Absent,
           stage |-> "transcribing", error |-> Absent],
         [source |-> "web", file |-> <<1, "u">>, language |-> Absent,
           stage |-> "error", error |-> "Transcription failed or empty"] }

\* what a request gets: the returned dict, or the error json.load raised
Answer(body) == [code |-> 200, body |-> <<body>>, error |-> Absent]
ServerError(class) == [code |-> 500, body |-> <<>>, error |-> class]

\* write_status: open(STATUS_FILE, "w")
WriteStatusOpen(data) ==
  /\ wsData = <<>>
  /\ wsData' = <<data>>
  /\ UNCHANGED <<pipelineVars, readyVars, reply>>

\* write_status: json.dump and the end of the with block
WriteStatusClose ==
  /\ wsData # <<>>
  /\ status' = wsData[1]
  /\ wsData' = <<>>
  /\ UNCHANGED <<lock, jobVars, logVars, fileVars, nextUid, watchVars, acks, readyVars,
                 reply>>

\* GET /status
get_status ==
  /\ reply' = <<IF ~StatusFile.exists THEN Answer(IdleStatus)
                ELSE IF StatusFile.complete THEN Answer(StatusFile.content)
                ELSE ServerError("JSONDecodeError")>>
  /\ UNCHANGED <<pipelineVars, readyVars, wsData>>

(***************************************************************************)
(* wait_until_ready                                                        *)
(***************************************************************************)
\* what one poll finds: os.path.getsize raises FileNotFoundError or returns
Missing == [found |-> FALSE, size |-> 0]
Sized(n) == [found |-> TRUE, size |-> n]
Observations == {Missing} \cup { Sized(n) : n \in 0..MaxSize }

\* the test of wait_until_ready without size > 0
StableIgnoringZero(size, last) == size = last

\* size > 0 and size == last_size
Stable(size, last) == size > 0 /\ size = last

\* wait_until_ready(path) is called: last_size = -1, start = time.time()
WaitCall ==
  /\ rpc = "idle"
  /\ rpc' = "loop"
  /\ last_size' = NoSize
  /\ samples' = <<>>
  /\ UNCHANGED <<pipelineVars, statusVars>>

\* one iteration of the while loop
WaitPoll ==
  /\ rpc = "loop"
  /\ Len(samples) < MaxPolls
  /\ \E o \in Observations :
       /\ samples' = Append(samples, o)
       /\ IF o.found
          THEN IF Stable(o.size, last_size)
               THEN /\ rpc' = "True"
                    /\ UNCHANGED last_size
               ELSE /\ last_size' = o.size
                    /\ UNCHANGED rpc
          ELSE UNCHANGED <<last_size, rpc>>
  /\ UNCHANGED <<pipelineVars, statusVars>>

\* time.time() - start < timeout is false: return False
WaitTimeout ==
  /\ rpc = "loop"
  /\ rpc' = "False"
  /\ UNCHANGED <<pipelineVars, statusVars, samples, last_size>>

(***************************************************************************)
(* Specification                                                           *)
(***************************************************************************)
JobStep(j) ==
  \/ Acquire(j)
  \/ PublishTranscribing(j)
  \/ Transcribe(j)
  \/ SaveTranscript(j)
  \/ Summarize(j)
  \/ Translate(j)
  \/ SaveSummary(j)
  \/ Render(j)
  \/ Release(j)

Next ==
  \/ \E j \in Jobs : JobStep(j)
  \/ \E file \in UploadFiles : upload_audio(file)
  \/ WatcherStart
  \/ WatcherPoll
  \/ WatcherIter
  \/ WatcherReturn
  \/ WatcherSleep
  \/ \E file \in BluetoothFiles : Drop(file)

Spec == Init /\ [][Next]_vars

\* The runs of process_audio_pipeline that uploads schedule, under fairness:
\* the thread of every job keeps running, and every call it makes to a
\* collaborator returns or raises.
NextRuns ==
  \/ \E j \in Jobs : JobStep(j)
  \/ \E file \in UploadFiles : upload_audio(file)

InitRuns == Init /\ ledger = NoLedger

FairSpec ==
  /\ InitRuns
  /\ [][NextRuns]_vars
  /\ \A j \in Jobs : WF_vars(JobStep(j))

(***************************************************************************)
(* The translation branch on its own: job 1 has published "summarizing"    *)
(* and generate_summary has returned any Summary of up to MaxFields fields *)
(* whose lists hold up to MaxItems texts.                                  *)
(***************************************************************************)
TextSamples == { <<>>, <<99>> }
SummaryKeys == {"doctor_summary", "symptoms", "advice"}
ValueSamples ==
  { Scalar(t) : t \in TextSamples }
  \cup { List(ts) : ts \in UNION { [1..n -> TextSamples] : n \in 0..MaxItems } }
SummarySamples ==
  UNION { { f \in [1..n -> SummaryKeys \X ValueSamples] :
              \A a, b \in 1..n : a # b => f[a][1] # f[b][1] } : n \in 1..MaxFields }

InitTranslate ==
  /\ lock = 1
  /\ pc = [j \in Jobs |-> IF j = 1 THEN "translate" ELSE "idle"]
  /\ source = [j \in Jobs |-> IF j = 1 THEN "web" ELSE Absent]
  /\ base_name = [j \in Jobs |-> IF j = 1 THEN <<1, "u">> ELSE NoBase]
  /\ attempts = [j \in Jobs |-> IF j = 1 THEN 1 ELSE 0]
  /\ \E t \in {TranscribeEnglish, TranscribeHindi} :
       /\ transcript = [j \in Jobs |-> IF j = 1 THEN t ELSE NoTranscript]
       /\ language = [j \in Jobs |-> IF j = 1 THEN detect_language_from_text(t.text)
                                               ELSE Absent]
       /\ transcripts = [j \in Jobs |-> IF j = 1 THEN WholeFile(<<TranscriptJson(1, t)>>)
                                                  ELSE NoFile]
  /\ status = StatusOf(1, language[1], "summarizing", Absent)
  /\ \E summary \in SummarySamples :
       summary_en = [j \in Jobs |-> IF j = 1 THEN summary ELSE EmptySummary]
  /\ summary_final = [j \in Jobs |-> EmptySummary]
  /\ error = [j \in Jobs |-> NoError]
  /\ result = [j \in Jobs |-> "None"]
  /\ published = [j \in Jobs |-> IF j = 1 THEN <<"transcribing", "summarizing">> ELSE <<>>]
  /\ transcribeLog = [j \in Jobs |-> IF j = 1 THEN 1 ELSE 0]
  /\ summarizeLog = [j \in Jobs |-> IF j = 1 THEN 1 ELSE 0]
  /\ translateLog = [j \in Jobs |-> <<>>]
  /\ renderLog = [j \in Jobs |-> 0]
  /\ summaries = [j \in Jobs |-> NoFile]
  /\ pdfs = [j \in Jobs |-> FALSE]
  /\ nextUid = 2
  /\ wpc = "start"
  /\ processed = {}
  /\ ledger = NoLedger
  /\ btdir = {}
  /\ todo = {}
  /\ wfile = NoName
  /\ wjob = NoJob
  /\ acks = {[status |-> "processing", audio_name |-> <<1, "u">>]}
  /\ samples = <<>>
  /\ last_size = NoSize
  /\ rpc = "idle"
  /\ wsData = <<>>
  /\ reply = <<>>

NextTranslate ==
  \E j \in Jobs :
    \/ Translate(j)
    \/ SaveSummary(j)
    \/ Render(j)
    \/ Release(j)

SpecTranslate == InitTranslate /\ [][NextTranslate]_vars

(***************************************************************************)
(* The transcript stage and what follows it, for any transcript: job 1 has *)
(* published "transcribing" and transcribe_audio has returned either up to *)
(* MaxUtterances utterances of any speakers and lengths, or any of the     *)
(* texts of LanguageTexts with any language_code.                          *)
(***************************************************************************)
Speakers == {"A", "B", "C"}
UtteranceTexts == { <<>>, <<104>>, <<104, 105>> }
UtteranceSamples ==
  UNION { [1..n -> { [speaker |-> sp, text |-> t, start |-> 0, end |-> 1] :
                       sp \in Speakers, t \in UtteranceTexts }] : n \in 0..MaxUtterances }
\* Latin only; Devanagari only; mixed; the code points next to the block; its ends
LanguageTexts ==
  { <<104, 105>>, <<2344, 2350>>, <<104, 2344>>,
    <<DevanagariFirst - 1, DevanagariLast + 1>>, <<DevanagariFirst>>, <<DevanagariLast>> }
LanguageCodes == {"en", "hi"}
TranscriptSamples ==
  { [kind |-> "obj", text |-> <<104, 105>>, utterances |-> u, language_code |-> "en"] :
      u \in UtteranceSamples }
  \cup { [kind |-> "obj", text |-> t, utterances |-> NoUtterances, language_code |-> c] :
           t \in LanguageTexts, c \in LanguageCodes }

InitTranscript ==
  /\ lock = 1
  /\ pc = [j \in Jobs |-> IF j = 1 THEN "save_transcript" ELSE "idle"]
  /\ source = [j \in Jobs |-> IF j = 1 THEN "web" ELSE Absent]
  /\ base_name = [j \in Jobs |-> IF j = 1 THEN <<1, "u">> ELSE NoBase]
  /\ status = StatusOf(1, Absent, "transcribing", Absent)
  /\ attempts = [j \in Jobs |-> IF j = 1 THEN 1 ELSE 0]
  /\ \E t \in TranscriptSamples :
       transcript = [j \in Jobs |-> IF j = 1 THEN t ELSE NoTranscript]
  /\ language = [j \in Jobs |-> Absent]
  /\ summary_en = [j \in Jobs |-> EmptySummary]
  /\ summary_final = [j \in Jobs |-> EmptySummary]
  /\ error = [j \in Jobs |-> NoError]
  /\ result = [j \in Jobs |-> "None"]
  /\ published = [j \in Jobs |-> IF j = 1 THEN <<"transcribing">> ELSE <<>>]
  /\ transcribeLog = [j \in Jobs |-> IF j = 1 THEN 1 ELSE 0]
  /\ summarizeLog = [j \in Jobs |-> 0]
  /\ translateLog = [j \in Jobs |-> <<>>]
  /\ renderLog = [j \in Jobs |-> 0]
  /\ transcripts = [j \in Jobs |-> NoFile]
  /\ summaries = [j \in Jobs |-> NoFile]
  /\ pdfs = [j \in Jobs |-> FALSE]
  /\ nextUid = 2
  /\ wpc = "start"
  /\ processed = {}
  /\ ledger = NoLedger
  /\ btdir = {}
  /\ todo = {}
  /\ wfile = NoName
  /\ wjob = NoJob
  /\ acks = {[status |-> "processing", audio_name |-> <<1, "u">>]}
  /\ samples = <<>>
  /\ last_size = NoSize
  /\ rpc = "idle"
  /\ wsData = <<>>
  /\ reply = <<>>

NextTranscript ==
  \E j \in Jobs :
    \/ SaveTranscript(j)
    \/ Summarize(j)
    \/ Translate(j)
    \/ SaveSummary(j)
    \/ Render(j)
    \/ Release(j)

SpecTranscript == InitTranscript /\ [][NextTranscript]_vars

(***************************************************************************)
(* wait_until_ready on its own: one call, any observation at every poll    *)
(***************************************************************************)
InitReady == Init /\ ledger = NoLedger

NextReady ==
  \/ WaitCall
  \/ WaitPoll
  \/ WaitTimeout

SpecReady == InitReady /\ [][NextReady]_vars

(***************************************************************************)
(* The status file on its own: the lock holder writes its records one      *)
(* after the other while status requests arrive at any moment.             *)
(***************************************************************************)
InitStatus == Init /\ ledger = NoLedger

NextStatus ==
  \/ \E data \in StatusRecords : WriteStatusOpen(data)
  \/ WriteStatusClose
  \/ get_status

SpecStatus == InitStatus /\ [][NextStatus]_vars

(***************************************************************************)
(* The watcher on its own, against the interface of the orchestrator: the  *)
(* call of process_audio_pipeline returns True or False.  The ledger is    *)
(* missing or lists any of the name the sender drops and one other name.   *)
(***************************************************************************)
\* process_audio_pipeline(wav_path, base, "bluetooth") returns
PipelineReturns ==
  /\ wpc = "call"
  /\ pc[wjob] = "waiting"
  /\ \E r \in {"True", "False"} : result' = [result EXCEPT ![wjob] = r]
  /\ pc' = [pc EXCEPT ![wjob] = "done"]
  /\ UNCHANGED <<lock, status, source, base_name, attempts, transcript, language,
                 summary_en, summary_final, error, published, logVars, fileVars,
                 nextUid, watchVars, acks, readyVars, statusVars>>

InitWatcher ==
  /\ lock = NoJob
  /\ status = IdleStatus
  /\ pc = [j \in Jobs |-> "idle"]
  /\ source = [j \in Jobs |-> Absent]
  /\ base_name = [j \in Jobs |-> NoBase]
  /\ attempts = [j \in Jobs |-> 0]
  /\ transcript = [j \in Jobs |-> NoTranscript]
  /\ language = [j \in Jobs |-> Absent]
  /\ summary_en = [j \in Jobs |-> EmptySummary]
  /\ summary_final = [j \in Jobs |-> EmptySummary]
  /\ error = [j \in Jobs |-> NoError]
  /\ result = [j \in Jobs |-> "None"]
  /\ published = [j \in Jobs |-> <<>>]
  /\ transcribeLog = [j \in Jobs |-> 0]
  /\ summarizeLog = [j \in Jobs |-> 0]
  /\ translateLog = [j \in Jobs |-> <<>>]
  /\ renderLog = [j \in Jobs |-> 0]
  /\ transcripts = [j \in Jobs |-> NoFile]
  /\ summaries = [j \in Jobs |-> NoFile]
  /\ pdfs = [j \in Jobs |-> FALSE]
  /\ nextUid = 1
  /\ wpc = "start"
  /\ processed = {}
  /\ ledger \in {NoLedger}
                \cup { LedgerOf(p) : p \in SUBSET { <<"a", ".MP3">>, <<"b", ".wav">> } }
  /\ btdir = {}
  /\ todo = {}
  /\ wfile = NoName
  /\ wjob = NoJob
  /\ acks = {}
  /\ samples = <<>>
  /\ last_size = NoSize
  /\ rpc = "idle"
  /\ wsData = <<>>
  /\ reply = <<>>

NextWatcher ==
  \/ WatcherStart
  \/ WatcherPoll
  \/ WatcherIter
  \/ PipelineReturns
  \/ WatcherReturn
  \/ WatcherSleep
  \/ \E file \in BluetoothFiles : Drop(file)

SpecWatcher == InitWatcher /\ [][NextWatcher]_vars


(***************************************************************************)
(* Properties                                                              *)
(***************************************************************************)
Last(p) == p[Len(p)]
Front(p) == SubSeq(p, 1, Len(p) - 1)
IsPrefix(p, q) == Len(p) <= Len(q) /\ p = SubSeq(q, 1, Len(p))

Terminal == {"completed", "error"}
\* the job has written "transcribing" and has not written its terminal status
InWindow(j) == published[j] # <<>> /\ Last(published[j]) \notin Terminal
Failed(j) == published[j] # <<>> /\ Last(published[j]) = "error"

\* C1: at every instant at most one job is between its "transcribing" status
\* write and its terminal status write, whichever gateway started the jobs.
C1_MutualExclusion ==
  \A i, j \in Jobs : InWindow(i) /\ InWindow(j) => i = j

\* a web job is inside its window while a watcher job waits for the lock
C1_Witness ==
  \E i, j \in Jobs :
    /\ InWindow(i) /\ source[i] = "web"
    /\ pc[j] = "waiting" /\ source[j] = "bluetooth"

\* C2: whenever a stage raises, the orchestrator publishes stage "error" with
\* the description of the error for that job and returns False, and the
\* exception never leaves process_audio_pipeline.
C2_ErrorBoundary ==
  \A j \in Jobs :
    /\ pc[j] # "raised"
    /\ error[j] # NoError =>
         /\ pc[j] = "exit"
         /\ result[j] = "False"
         /\ status = [source |-> source[j], file |-> base_name[j], language |-> Absent,
                      stage |-> "error", error |-> error[j].msg]
         /\ Failed(j)

\* the renderer call raised and the job is about to return False
C2_Witness ==
  \E j \in Jobs :
    /\ pc[j] = "exit" /\ error[j].class = "TypeError" /\ renderLog[j] = 1
    /\ status.stage = "error" /\ result[j] = "False"

StageOrder == <<"transcribing", "summarizing", "generating_pdf", "completed">>
WellOrdered(p) ==
  \/ IsPrefix(p, StageOrder)
  \/ /\ p # <<>>
     /\ Last(p) = "error"
     /\ IsPrefix(Front(p), StageOrder)
     /\ Front(p) # StageOrder

\* C3: the stages a job publishes are a prefix of transcribing, summarizing,
\* generating_pdf, completed, optionally ended by error; nothing follows a
\* terminal stage; translation calls happen only after "summarizing" was
\* published and only when the language is not the default.
C3_StageOrdering ==
  \A j \in Jobs :
    /\ WellOrdered(published[j])
    /\ (pc[j] \in {"exit", "done"}) <=> (published[j] # <<>> /\ Last(published[j]) \in Terminal)
    /\ translateLog[j] # <<>> =>
         /\ language[j] # "en"
         /\ IsPrefix(<<"transcribing", "summarizing">>, published[j])
         /\ "generating_pdf" \in {published[j][i] : i \in 1..Len(published[j])}
              => translateLog[j] = Leaves(summary_en[j])

\* a Hindi job went through translation and rendering and ended in error
C3_Witness ==
  \E j \in Jobs :
    /\ published[j] = <<"transcribing", "summarizing", "generating_pdf", "error">>
    /\ translateLog[j] # <<>>

\* C4: the transcript file is written before summarization is invoked and
\* before the summary file is written, and the summary file is written before
\* the renderer is invoked.
C4_ArtifactOrdering ==
  \A j \in Jobs :
    /\ summarizeLog[j] > 0 => transcripts[j].complete
    /\ summaries[j].exists => transcripts[j].complete
    /\ renderLog[j] > 0 => summaries[j].complete /\ transcripts[j].complete

\* the renderer has been invoked with both files on disk
C4_Witness ==
  \E j \in Jobs :
    renderLog[j] = 1 /\ summaries[j].complete /\ transcripts[j].complete


\* the transcription stage handed a usable transcript to the rest of the run
TranscriptionSucceeded(j) == ~TranscriptRejected(transcript[j])

\* C5 as stated: a job that ended in error has no summary file and no report
\* file, and has a transcript file exactly if transcription succeeded.
C5_FailedJobLeavesNoSummary ==
  \A j \in Jobs :
    pc[j] = "exit" /\ Failed(j) =>
      /\ ~summaries[j].exists
      /\ ~pdfs[j]
      /\ transcripts[j].exists <=> TranscriptionSucceeded(j)

\* C5 amended: a job that ended in error has no report file; it has a summary
\* file only if the failure came at the summary write or at rendering (the
\* file is whole exactly when "generating_pdf" was published); it has a
\* transcript file only if transcription succeeded, and then it lacks one
\* only if the transcript write itself failed.
C5_FailedJobArtifacts ==
  \A j \in Jobs :
    pc[j] = "exit" /\ Failed(j) =>
      /\ ~pdfs[j]
      /\ summaries[j].exists =>
           \/ error[j].msg = "summary write failed" /\ ~summaries[j].complete
           \/ renderLog[j] > 0 /\ summaries[j].complete
      /\ transcripts[j].exists => TranscriptionSucceeded(j)
      /\ TranscriptionSucceeded(j) /\ ~transcripts[j].exists =>
           error[j].msg = "transcript write failed"

\* a job failed at rendering and its whole summary file is on disk
C5_Witness ==
  \E j \in Jobs :
    /\ pc[j] = "exit" /\ Failed(j) /\ renderLog[j] = 1
    /\ summaries[j].complete /\ transcripts[j].complete /\ ~pdfs[j]

\* C6: the watcher changes the ProcessedSet and the ledger only when
\* process_audio_pipeline has returned True for the file, and then by adding
\* that file; it hands the orchestrator no file that is in the ProcessedSet.
C6_LedgerSuccessOnly ==
  [][ /\ wpc # "start" /\ (processed' # processed \/ ledger' # ledger) =>
           /\ wpc = "call"
           /\ pc[wjob] = "done"
           /\ result[wjob] = "True"
           /\ processed' = processed \cup {wfile}
      /\ wpc # "call" /\ wpc' = "call" =>
           /\ wfile' \notin processed
           /\ wfile' \notin processed'
    ]_vars

\* a watcher run has failed and the watcher went on with the file unrecorded
C6_Witness ==
  \E j \in Jobs :
    /\ source[j] = "bluetooth" /\ pc[j] = "done" /\ result[j] = "False"
    /\ wpc = "iter" /\ processed = {} /\ ~ledger.exists

\* C7 as stated: a watched file whose run reported failure is handed to the
\* orchestrator again on the next poll, so when the failed run returns the
\* file is still in the watched directory for the next listing to find.
C7_FailedFileRetried ==
  wpc = "call" /\ pc[wjob] = "done" /\ result[wjob] = "False" => wfile \in btdir

\* C8 as stated: a run whose transcription, summarization, translations and
\* file writes all went through ends with status "completed", returns True
\* and has its report on disk.
C8_SuccessfulRunCompletes ==
  \A j \in Jobs :
    ( /\ pc[j] = "exit"
      /\ TranscriptionSucceeded(j)
      /\ transcripts[j].complete
      /\ summary_en[j] # EmptySummary
      /\ language[j] # "en" => translateLog[j] = Leaves(summary_en[j])
      /\ summaries[j].complete )
    => /\ result[j] = "True"
       /\ status.stage = "completed"
       /\ pdfs[j]

\* C9: for a job whose detected language is "en", translate_text is never
\* called and the summary file holds exactly what generate_summary returned.
C9_DefaultLanguageSkipsTranslation ==
  \A j \in Jobs :
    language[j] = "en" =>
      /\ translateLog[j] = <<>>
      /\ summaries[j].complete => summaries[j].content = JsonDump(summary_en[j])
      /\ pc[j] \in {"save_summary", "render"} => summary_final[j] = summary_en[j]

\* an English job has persisted its summary
C9_Witness ==
  \E j \in Jobs :
    language[j] = "en" /\ pc[j] = "render" /\ summaries[j].complete


RECURSIVE LeafCount(_)
\* number of text values in a Summary: one per scalar field, one per list element
LeafCount(summary) ==
  IF summary = <<>> THEN 0
  ELSE (IF Head(summary)[2].isList THEN Len(Head(summary)[2].items) ELSE 1)
       + LeafCount(Tail(summary))

\* the translation comprehension of job j has run to its end
Translated(j) == language[j] = "hi" /\ pc[j] \in {"save_summary", "render"}

\* C10: the translated Summary has the keys of the original in the same
\* order, every field is a list exactly if it was one, every list keeps its
\* length and order, every text is the translation of the text in its place,
\* and translate_text was called once per text, in order.
C10_TranslationPreservesShape ==
  \A j \in Jobs :
    Translated(j) =>
      LET a == summary_en[j]
          b == summary_final[j]
      IN  /\ Len(b) = Len(a)
          /\ \A i \in 1..Len(a) :
               /\ b[i][1] = a[i][1]
               /\ b[i][2].isList = a[i][2].isList
               /\ Len(b[i][2].items) = Len(a[i][2].items)
               /\ \A k \in 1..Len(a[i][2].items) :
                    /\ b[i][2].items[k] = translate_text(a[i][2].items[k], language[j])
                    /\ b[i][2].items[k] # a[i][2].items[k]
          /\ Len(translateLog[j]) = LeafCount(a)
          /\ translateLog[j] = Leaves(a)

\* a Summary of a scalar field and a two-element list has been translated
C10_Witness ==
  \E j \in Jobs :
    /\ Translated(j)
    /\ Len(summary_en[j]) = 2
    /\ ~summary_en[j][1][2].isList
    /\ summary_en[j][2][2].isList /\ Len(summary_en[j][2][2].items) = 2
    /\ summary_en[j][2][2].items[1] # summary_en[j][2][2].items[2]

\* the job failed because a call of translate_text raised
TranslationFailed(j) ==
  pc[j] = "exit" /\ error[j] = Exc("Exception", "translate_text failed")

\* C11: when the translation of any one text of the Summary fails, the job
\* publishes "error", no summary file of the job exists (neither a partial
\* nor an untranslated one) and generate_pdf is not called.
C11_TranslationAllOrNothing ==
  \A j \in Jobs :
    TranslationFailed(j) =>
      /\ status.stage = "error" /\ status.file = base_name[j]
      /\ Failed(j)
      /\ result[j] = "False"
      /\ summaries[j] = NoFile
      /\ summary_final[j] = EmptySummary
      /\ renderLog[j] = 0
      /\ ~pdfs[j]

\* a translation failed after an earlier text of the same Summary went through
C11_Witness ==
  \E j \in Jobs :
    /\ TranslationFailed(j)
    /\ Len(translateLog[j]) > 1
    /\ status.stage = "error" /\ summaries[j] = NoFile

\* the sizes wait_until_ready has read, in order (a poll that finds no file
\* reads none)
Sizes ==
  LET f == SelectSeq(samples, LAMBDA o : o.found)
  IN  [i \in 1..Len(f) |-> f[i].size]
HasStablePair(s) == \E i \in 1..(Len(s) - 1) : s[i] > 0 /\ s[i + 1] = s[i]
StrictlyGrowing(s) == \A i \in 1..(Len(s) - 1) : s[i] < s[i + 1]
AllZero(s) == \A i \in 1..Len(s) : s[i] = 0

\* C12: wait_until_ready returns True exactly when two consecutive sizes it
\* read before the timeout are equal and positive (and then on reading the
\* second of the first such pair), and False otherwise; sizes that grow at
\* every poll, or stay zero, never give True.
C12_ReadyIffStablePair ==
  /\ rpc = "True" <=> HasStablePair(Sizes)
  /\ rpc = "True" =>
       /\ Last(samples).found
       /\ Sizes[Len(Sizes)] = Sizes[Len(Sizes) - 1]
       /\ ~HasStablePair(Front(Sizes))
  /\ rpc = "False" => ~HasStablePair(Sizes)
  /\ StrictlyGrowing(Sizes) \/ AllZero(Sizes) => rpc # "True"

\* the file grew, then two polls in a row read the same positive size
C12_Witness ==
  /\ rpc = "True"
  /\ Len(samples) = 3 /\ Len(Sizes) = 3
  /\ Sizes[1] < Sizes[2] /\ Sizes[2] = Sizes[3]

\* C18 as stated: True is returned only when the last two polls both found
\* the file and read the same positive size; a poll that finds no file
\* between two equal positive sizes does not give True.
C18_ReadyOnlyFromSuccessivePolls ==
  rpc = "True" =>
    /\ Len(samples) >= 2
    /\ samples[Len(samples) - 1].found
    /\ samples[Len(samples)].found
    /\ samples[Len(samples) - 1].size = samples[Len(samples)].size
    /\ samples[Len(samples)].size > 0

\* the speaker tags of a list of utterances
Tags(u) == { u[i].speaker : i \in 1..Len(u) }
\* the total number of characters a tag spoke
Total(u, s) ==
  Cardinality(UNION { { <<i, k>> : k \in 1..Len(u[i].text) } :
                        i \in { n \in 1..Len(u) : u[n].speaker = s } })
\* the utterance at which a tag speaks first
FirstIndex(u, s) ==
  CHOOSE i \in 1..Len(u) : u[i].speaker = s /\ \A k \in 1..(i - 1) : u[k].speaker # s
\* the newline-joined "<Role>: <text>" lines in which tag d alone is the Doctor
RoleLines(u, d) ==
  Join(Newline, [i \in 1..Len(u) |->
                   (IF u[i].speaker = d THEN DoctorText ELSE PatientText)
                   \o ColonSpace \o u[i].text])

\* C13: in a transcript file full_text is the newline-joined "<Role>: <text>"
\* lines of the utterances in their order, in which exactly one tag is the
\* Doctor and every other tag the Patient; the Doctor has the greatest total
\* of characters (with two tags: the strictly greater one), and among tags
\* of equal greatest total it is the one that speaks first.
C13_RoleAssignment ==
  \A j \in Jobs :
    transcripts[j].complete =>
      LET u == transcripts[j].content[1].utterances
          full_text == transcripts[j].content[1].full_text
          doctors == { d \in Tags(u) : full_text = RoleLines(u, d) }
      IN  IF u = <<>> THEN full_text = <<>>
          ELSE /\ Cardinality(doctors) = 1
               /\ \A d \in doctors : \A s \in Tags(u) \ {d} :
                    \/ Total(u, s) < Total(u, d)
                    \/ Total(u, s) = Total(u, d) /\ FirstIndex(u, d) < FirstIndex(u, s)
               /\ Cardinality(Tags(u)) = 2 =>
                    \A a, b \in Tags(u) : Total(u, a) > Total(u, b) => a \in doctors

\* three utterances of two tags were written, and the Doctor is the tag that
\* spoke second and said more
C13_Witness ==
  \E j \in Jobs :
    /\ transcripts[j].complete
    /\ LET u == transcripts[j].content[1].utterances
       IN  /\ Len(u) = 3 /\ Cardinality(Tags(u)) = 2
           /\ Total(u, u[2].speaker) > Total(u, u[1].speaker)
           /\ transcripts[j].content[1].full_text = RoleLines(u, u[2].speaker)

\* C14: after startup every write of the status record is made by the job
\* that holds PIPELINE_LOCK and names that job; and while a job is between
\* its "transcribing" write and its terminal write it holds the lock and the
\* status record carries its source, its file and the stage it published last.
C14_StatusReflectsLockHolder ==
  [][ /\ status' # status =>
           /\ lock # NoJob
           /\ lock' = lock
           /\ status'.file = base_name[lock]
           /\ published'[lock] = Append(published[lock], status'.stage)
           /\ \A i \in Jobs \ {lock} : published'[i] = published[i]
      /\ published' # published => status' # status
      /\ \A j \in Jobs :
           InWindow(j)' =>
             /\ lock' = j
             /\ status'.source = source'[j]
             /\ status'.file = base_name'[j]
             /\ status'.stage = Last(published'[j])
    ]_vars

\* a job is in its window with "summarizing" in the status record while
\* another accepted job waits for the lock
C14_Witness ==
  \E i, j \in Jobs :
    /\ i # j /\ pc[i] = "waiting"
    /\ InWindow(j) /\ lock = j
    /\ status.file = base_name[j] /\ status.stage = "summarizing"

Stages == {"idle", "transcribing", "summarizing", "generating_pdf", "completed", "error"}

\* C15 as stated: every status request, whenever it arrives, is answered
\* with a well-formed status record, the idle record if no job has written
\* the status yet.
C15_StatusQueryAlwaysAnswers ==
  reply # <<>> =>
    /\ reply[1].code = 200
    /\ reply[1].body # <<>>
    /\ reply[1].body[1].stage \in Stages
    /\ status = IdleStatus /\ wsData = <<>> => reply[1].body[1] = IdleStatus

\* some character of the text lies in U+0900..U+097F
HasDevanagari(text) ==
  \E i \in 1..Len(text) : text[i] \in DevanagariFirst..DevanagariLast

\* C16: the language of a job is "hi" exactly if some character of the
\* transcript text lies in U+0900..U+097F and "en" otherwise, whatever
\* language_code the collaborator reported; the transcript file records it;
\* and translate_text is called exactly in the jobs whose language is "hi".
C16_LanguageDrivesTranslation ==
  \A j \in Jobs :
    language[j] # Absent =>
      /\ language[j] = (IF HasDevanagari(transcript[j].text) THEN "hi" ELSE "en")
      /\ transcripts[j].complete => transcripts[j].content[1].language = language[j]
      /\ translateLog[j] # <<>> => language[j] = "hi"
      /\ pc[j] \in {"save_summary", "render"} \/ summaries[j].exists =>
           (language[j] = "hi" <=> translateLog[j] = Leaves(summary_en[j]))
      /\ pc[j] \in {"save_summary", "render"} \/ summaries[j].exists =>
           (language[j] = "en" <=> translateLog[j] = <<>>)

\* a text that begins in Latin script and goes on in Devanagari, reported as
\* "en" by the collaborator, was detected as "hi" and its Summary translated
C16_Witness ==
  \E j \in Jobs :
    /\ language[j] = "hi" /\ transcript[j].language_code = "en"
    /\ ~HasDevanagari(<<transcript[j].text[1]>>)
    /\ pc[j] = "save_summary"
    /\ translateLog[j] = Leaves(summary_en[j]) /\ translateLog[j] # <<>>

\* C17 as stated: transcribe_audio is called at most twice in a job; a first
\* result that is None, has no text, or has empty or whitespace-only text is
\* followed by a second call; a first result with text is not; and a job
\* that fails in transcription is in "error" and has no transcript file.
C17_TranscriptionRetry ==
  \A j \in Jobs :
    /\ transcribeLog[j] <= MaxAttempts
    /\ ( /\ transcribeLog[j] = 1
         /\ pc[j] # "transcribe"
         /\ error[j].msg # "transcribe_audio failed" )
       => ~TranscriptRejected(transcript[j])
    /\ transcribeLog[j] = 1 /\ pc[j] = "transcribe" => TranscriptRejected(transcript[j])
    /\ error[j].msg = "Transcription failed or empty" =>
         /\ ~transcripts[j].exists
         /\ status.stage = "error" /\ status.file = base_name[j]

\* C19: upload_audio neither takes nor waits for PIPELINE_LOCK: it can answer
\* in every state, whoever holds the lock, its step leaves the lock as it is
\* and returns {status: "processing", audio_name} for a job that is scheduled
\* and has written nothing; and a job's first status write is "transcribing",
\* made while it holds the lock.
C19_AsynchronousAcceptance ==
  [][ /\ nextUid <= MaxJobs => ENABLED (\E file \in UploadFiles : upload_audio(file))
      /\ acks' # acks =>
           /\ lock' = lock
           /\ status' = status
           /\ \E a \in acks' \ acks :
                /\ acks' = acks \cup {a}
                /\ a.status = "processing"
                /\ a.audio_name = base_name'[nextUid]
                /\ pc'[nextUid] = "waiting"
                /\ published'[nextUid] = <<>>
      /\ \A j \in Jobs :
           published[j] = <<>> /\ published'[j] # <<>> =>
             /\ lock = j /\ lock' = j
             /\ published'[j] = <<"transcribing">>
             /\ status'.stage = "transcribing" /\ status'.file = base_name[j]
    ]_vars

\* an upload has been acknowledged and its job waits, with nothing written,
\* while the watcher's job holds the lock inside its window
C19_Witness ==
  \E i, j \in Jobs :
    /\ source[i] = "web" /\ pc[i] = "waiting" /\ published[i] = <<>>
    /\ [status |-> "processing", audio_name |-> base_name[i]] \in acks
    /\ source[j] = "bluetooth" /\ lock = j /\ InWindow(j)

TerminalWrites(j) == { i \in 1..Len(published[j]) : published[j][i] \in Terminal }

\* C21: a job that holds PIPELINE_LOCK has published no terminal status
\* until it stands at the end of the with block, where it has published
\* exactly one, as its last; a job that has returned does not hold the lock;
\* and every job that holds the lock eventually returns with the lock free.
C21_LockReleasedAfterTerminal ==
  /\ [](\A j \in Jobs :
          /\ lock = j /\ pc[j] # "exit" => TerminalWrites(j) = {}
          /\ pc[j] \in {"exit", "done"} => TerminalWrites(j) = {Len(published[j])}
          /\ pc[j] = "exit" => lock = j
          /\ pc[j] \in {"done", "raised"} => lock # j)
  /\ \A j \in Jobs : (lock = j) ~> (pc[j] = "done" /\ lock = NoJob)

\* a job has failed and returned, and another job now runs
C21_Witness ==
  \E i, j \in Jobs :
    /\ i # j
    /\ pc[i] = "done" /\ Failed(i) /\ result[i] = "False"
    /\ lock = j /\ InWindow(j)

\* C22: while the status record shows "completed" for a job, its transcript,
\* summary and report files are on disk, and a run has returned True exactly
\* if it published "completed".
C22_CompletedImpliesArtifacts ==
  \A j \in Jobs :
    /\ status.stage = "completed" /\ status.file = base_name[j] =>
         transcripts[j].complete /\ summaries[j].complete /\ pdfs[j]
    /\ pc[j] \in {"exit", "done"} =>
         (result[j] = "True" <=> "completed" \in SeqToSet(published[j]))

\* the step in which shutil.move or preprocess_audio raised
MoveOrPreprocessFault ==
  wpc = "iter" /\ todo' # todo /\ wpc' \notin {"iter", "call"}
\* the step in which preprocess_audio raised: the file has left the watched
\* directory and no run was started
PreprocessFault ==
  wpc = "iter" /\ btdir' # btdir /\ btdir' \subseteq btdir /\ wpc' # "call"
\* the step in which save_processed raised
SaveFault ==
  /\ wpc = "call" /\ pc[wjob] = "done" /\ result[wjob] = "True"
  /\ wpc' \notin {"call", "iter"}
WatcherLabels == {"start", "poll", "iter", "call"}

=============================================================================
